---- MODULE Spec2Model ----
(***************************************************************************)
(* Bidness: outbound call / SMS dispatch.                                  *)
(*                                                                         *)
(*   SpecDial  - the retry controller of the call API                      *)
(*               (dial_once / dial_with_retries, eleven_batch_call.py and  *)
(*               app.py, which carry the same loop).                       *)
(*   SpecBatch - the batch endpoint of the call API (api_call_batch),      *)
(*               which dials its items one after another; SpecBatchFair    *)
(*               adds weak fairness of the handler's steps.                *)
(*   SpecSheet - the worklist run of sms_blast.py (main), run repeatedly   *)
(*               against one spreadsheet.                                  *)
(*   SpecLayout - SpecSheet on worksheets whose tracking columns are in    *)
(*               other places of the header row.                           *)
(*   SpecRace  - two runs of main() overlapping on one spreadsheet.        *)
(***************************************************************************)
EXTENDS Integers, Sequences, FiniteSets, TLC

(***************************************************************************)
(* Bounds of the model.                                                    *)
(***************************************************************************)
MaxRetries == 3
MaxBackoff == 4
MaxRows == 2        \* data rows of the worksheet
MaxRuns == 2        \* worklist runs against the same worksheet
MaxLimit == 2       \* largest DAILY_LIMIT tried (with 0 and 1)
MaxItems == 2       \* items of a batch request
MaxBatchRetries == 1  \* largest retries of a batch request
MaxDelay == 1       \* largest delay_seconds of a batch request

(***************************************************************************)
(* Program constants.                                                      *)
(***************************************************************************)
BackoffCap == 6
MaxSendAttempts == 3
ChunkSize == 100

VARIABLES
    \* ---- dial_with_retries (one call of it) ----
    item,        \* the payload: which required fields are non-empty, provider
    retries,     \* parameter retries
    backoff,     \* parameter backoff_seconds (whole seconds)
    attempts,    \* local attempts
    last,        \* local last
    dpc,         \* "loop" | "returned" | "raised"
    result,      \* the returned dict (None until returned)
    \* ---- observation of the environment of dial_with_retries ----
    dialLog,     \* the results of the dial_once calls made, in order
    netCalls,    \* number of provider network calls made
    sleeps,      \* the durations of the completed time.sleep calls, in order
    \* ---- the worksheet (sms_blast.py) ----
    header,      \* row 1 of the worksheet
    cells,       \* the data rows: cells[k] is sheet row k + 1
    \* ---- the worklist runs: run[p] holds the locals of run p of main() ----
    run,
    \* ---- observation of the provider across runs ----
    delivered,   \* sheet rows for which a provider send has succeeded
    resent,      \* sheet rows sent to the provider again after a success
    selection,   \* selection[p]: the sheet rows rows_to_send returned in run p
    \* ---- api_call_batch (one request) ----
    items,          \* payload["items"]
    delay_seconds,  \* payload["delay_seconds"] (whole seconds)
    loopIndex,      \* the loop variable i of enumerate(items, start=1)
    results,        \* local results
    bpc,            \* "loop" | "returned" | "rejected" | "raised"
    summary,        \* the body of the 200 response (None until returned)
    paces           \* the time.sleep(delay_seconds) calls made, in order

dialVars == <<item, retries, backoff, attempts, last, dpc, result,
              dialLog, netCalls, sleeps>>

sheetVars == <<header, cells, run, delivered, resent, selection>>

batchVars == <<items, delay_seconds, loopIndex, results, bpc, summary, paces>>

vars == <<item, retries, backoff, attempts, last, dpc, result,
          dialLog, netCalls, sleeps, header, cells, run, delivered, resent,
          selection,
          items, delay_seconds, loopIndex, results, bpc, summary, paces>>

(***************************************************************************)
(* Helpers.                                                                *)
(***************************************************************************)
Min(a, b) == IF a <= b THEN a ELSE b

Max(a, b) == IF a >= b THEN a ELSE b

None == [isNone |-> TRUE]

RECURSIVE Join(_)
\* ", ".join(names)
Join(names) ==
    IF Len(names) = 0 THEN ""
    ELSE IF Len(names) = 1 THEN names[1]
    ELSE names[1] \o ", " \o Join(Tail(names))

(***************************************************************************)
(* Text.  Cell and header texts are drawn from a finite universe; strip,   *)
(* lower and upper are given by their values on it.                        *)
(***************************************************************************)
\* str.strip()
Strip(s) ==
    CASE s = " sent "    -> "sent"
      [] s = " Message " -> "Message"
      [] s = " "         -> ""
      [] OTHER           -> s

\* str.lower()
Lower(s) ==
    CASE s = "Number"  -> "number"
      [] s = "Message" -> "message"
      [] s = "Status"  -> "status"
      [] s = "Sent_At" -> "sent_at"
      [] s = "SID"     -> "sid"
      [] s = "Error"   -> "error"
      [] s = "Name"    -> "name"
      [] OTHER         -> s

\* str.upper()
Upper(s) ==
    CASE s = "sent" -> "SENT"
      [] s = "hi"   -> "HI"
      [] s = "Missing Number or Message" -> "MISSING NUMBER OR MESSAGE"
      [] OTHER      -> s

(***************************************************************************)
(* The worksheet.                                                          *)
(***************************************************************************)
Runs == 1..MaxRuns

\* an index that is None
NoneIdx == -1

\* header_map.get(name): the last column whose normalised text is name
\* (0-based), or None
IdxFor(hdr, name) ==
    LET hits == {k \in 1..Len(hdr) : Lower(Strip(hdr[k])) = name} IN
    IF hits = {} THEN NoneIdx
    ELSE (CHOOSE k \in hits : \A j \in hits : j <= k) - 1

\* find_header_indexes, without the check for Number and Message
HeaderIndexes(hdr) ==
    [number  |-> IdxFor(hdr, "number"),
     message |-> IdxFor(hdr, "message"),
     status  |-> IdxFor(hdr, "status"),
     sent_at |-> IdxFor(hdr, "sent_at"),
     sid     |-> IdxFor(hdr, "sid"),
     error   |-> IdxFor(hdr, "error")]

\* the header check asking for Number only
HeaderRaisesNumberOnly(hdr) == IdxFor(hdr, "number") = NoneIdx

\* find_header_indexes raises RuntimeError
HeaderRaises(hdr) ==
    IdxFor(hdr, "number") = NoneIdx \/ IdxFor(hdr, "message") = NoneIdx

\* ensure_col(name): append name unless that exact text is in the header
EnsureCol(hdr, name) ==
    IF \E k \in 1..Len(hdr) : hdr[k] = name THEN hdr ELSE Append(hdr, name)

\* the header after the four ensure_col calls
MigratedHeader(hdr) ==
    EnsureCol(EnsureCol(EnsureCol(EnsureCol(hdr, "Status"), "Sent_At"), "SID"), "Error")

\* row[idx] if idx is not None and idx < len(row) else ""
CellAt(row, i) == IF i # NoneIdx /\ i < Len(row) THEN row[i + 1] ELSE ""

\* safe_get
SafeGet(row, i) == Strip(CellAt(row, i))

\* the status test with FAILED rows skipped as well
IsSentOrFailed(row, idxStatus) ==
    Upper(Strip(CellAt(row, idxStatus))) \in {"SENT", "FAILED"}

\* the status test of rows_to_send: already SENT
IsSent(row, idxStatus) == Upper(Strip(CellAt(row, idxStatus))) = "SENT"

\* the blank test without strip: not any(cell for cell in row)
IsBlankUnstripped(row) == \A k \in 1..Len(row) : row[k] = ""

\* not any((cell or "").strip() for cell in row)
IsBlank(row) == \A k \in 1..Len(row) : Strip(row[k]) = ""

RECURSIVE RowsToSendFrom(_, _, _)
\* rows_to_send over the data rows from position k on; data row k is sheet
\* row k + 1
RowsToSendFrom(rows, idxStatus, k) ==
    IF k > Len(rows) THEN <<>>
    ELSE IF IsSent(rows[k], idxStatus) \/ IsBlank(rows[k])
         THEN RowsToSendFrom(rows, idxStatus, k + 1)
         ELSE <<[row_number |-> k + 1, row |-> rows[k]]>>
              \o RowsToSendFrom(rows, idxStatus, k + 1)

\* rows_to_send(values, idx_status), values[1:] being rows
RowsToSend(rows, idxStatus) == RowsToSendFrom(rows, idxStatus, 1)

\* the cap off by one: lst[:n + 1]
SliceToOneMore(lst, n) == SubSeq(lst, 1, Min(n + 1, Len(lst)))

\* lst[:n], n may be negative
SliceTo(lst, n) ==
    IF n >= 0 THEN SubSeq(lst, 1, Min(n, Len(lst)))
    ELSE SubSeq(lst, 1, Max(Len(lst) + n, 0))

\* idx + 1 if idx is not None else len(header)
ColOf(i, hdr) == IF i # NoneIdx THEN i + 1 ELSE Len(hdr)

\* now_iso() during run p
NowIso(p) == "T" \o ToString(p)

\* one entry of updates: the range row_number,col_status : row_number,col_error
\* and one row of four values
UpdateEntry(rowNumber, ix, hdr, vals) ==
    [row    |-> rowNumber,
     c1     |-> ColOf(ix.status, hdr),
     c2     |-> ColOf(ix.error, hdr),
     values |-> vals]

\* the spreadsheet rejects an update whose values do not fit into its range
FitsRange(u) == Max(u.c1, u.c2) - Min(u.c1, u.c2) + 1 >= Len(u.values)

\* a data row with the values of u written from the left end of the range
WriteRow(row, u) ==
    LET lo == Min(u.c1, u.c2)
        w  == Max(Len(row), lo + Len(u.values) - 1) IN
    [c \in 1..w |->
        IF c >= lo /\ c < lo + Len(u.values) THEN u.values[c - lo + 1]
        ELSE IF c <= Len(row) THEN row[c] ELSE ""]

RECURSIVE ApplyUpdates(_, _)
\* the data rows after the updates of one batch_update call, in order
ApplyUpdates(rows, us) ==
    IF Len(us) = 0 THEN rows
    ELSE LET u == us[1] IN
         ApplyUpdates(
            [rows EXCEPT ![u.row - 1] = WriteRow(rows[u.row - 1], u)],
            Tail(us))

\* chunk(updates, 100): the chunk that starts after the first done entries
ChunkAt(us, done) == SubSeq(us, done + 1, Min(done + ChunkSize, Len(us)))

\* rows_to_send has not been called
NoSelection == [made |-> FALSE, rows |-> {}]

\* the locals of a run that has not started; a run that has returned or
\* raised has dropped its locals again
IdleRun ==
    [pc          |-> "idle",
     DRY_RUN     |-> FALSE,
     DAILY_LIMIT |-> 0,
     header0     |-> <<>>,      \* values[0] as read at the start
     all_values  |-> <<>>,      \* the data rows as read at the start
     idx         |-> HeaderIndexes(<<>>),
     targets     |-> <<>>,
     to_send     |-> <<>>,
     pos         |-> 0,         \* position of the for loop in to_send
     attempt     |-> 0,
     error       |-> "",
     updates     |-> <<>>,
     flushed     |-> 0,         \* entries of updates already written
     called      |-> {},        \* sheet rows sent to the provider in this run
     processed   |-> <<>>]      \* sheet rows the loop has finished, in order

(***************************************************************************)
(* dial_once                                                               *)
(***************************************************************************)
RequiredFields == <<"to_number", "agent_id", "agent_phone_number_id">>

Providers == {"twilio", "sip"}

\* what the provider SDK call does: returns, or raises one of these
ProviderErrors == {"TimeoutError: timed out", "ApiError: rejected"}

ProviderOutcomes == {"ok"} \cup ProviderErrors

\* an item: the set of required fields that are present and non-empty
Items == [present : SUBSET {RequiredFields[k] : k \in 1..3}, provider : Providers]

\* [k for k in [...] if not payload.get(k)]
MissingFields(it) ==
    SelectSeq(RequiredFields, LAMBDA k : k \notin it.present)

\* validation happens before any network call
MakesNetworkCall(it) == Len(MissingFields(it)) = 0

\* the dict dial_once returns for payload it when the SDK call ends in prov
DialOnce(it, prov) ==
    IF Len(MissingFields(it)) > 0
    THEN [ok |-> FALSE, error |-> "Missing fields: " \o Join(MissingFields(it))]
    ELSE IF prov = "ok"
         THEN [ok |-> TRUE, provider |-> it.provider]
         ELSE [ok |-> FALSE, error |-> prov]

(***************************************************************************)
(* dial_with_retries                                                       *)
(***************************************************************************)
\* the backoff without its cap: backoff_seconds * attempts
BackoffDelayUncapped(b, n) == b * n

\* min(backoff_seconds * attempts, 6.0)
BackoffDelay(b, n) == Min(b * n, BackoffCap)

\* while attempts <= retries
LoopGuard(n, r) == n <= r

\* result["attempts"] = attempts
WithAttempts(res, n) ==
    IF res.ok
    THEN [ok |-> TRUE, provider |-> res.provider, attempts |-> n]
    ELSE [ok |-> FALSE, error |-> res.error, attempts |-> n]

\* last or {"ok": False, "error": "Unknown error"}
LastOrUnknown(l) == IF l = None THEN [ok |-> FALSE, error |-> "Unknown error"] ELSE l

InitDial ==
    /\ item \in Items
    /\ retries \in -2..MaxRetries
    /\ backoff \in -1..MaxBackoff
    /\ attempts = 0
    /\ last = None
    /\ dpc = "loop"
    /\ result = None
    /\ dialLog = <<>>
    /\ netCalls = 0
    /\ sleeps = <<>>
    /\ header = <<>>
    /\ cells = <<>>
    /\ run = [p \in Runs |-> IdleRun]
    /\ delivered = {}
    /\ resent = {}
    /\ selection = [p \in Runs |-> NoSelection]
    /\ items = <<>>
    /\ delay_seconds = 0
    /\ loopIndex = 1
    /\ results = <<>>
    /\ bpc = "idle"
    /\ summary = None
    /\ paces = <<>>

\* the loop without its return on success
AfterAttemptNoReturn(res, d) == IF d < 0 THEN "raised" ELSE "loop"

\* where the loop iteration goes after dial_once returned res and the
\* backoff computed for a failure is d
AfterAttempt(res, d) ==
    IF res.ok THEN "returned"
    ELSE IF d < 0 THEN "raised"      \* time.sleep(d) raises ValueError for d < 0
    ELSE "loop"

\* one iteration of the while loop: attempts += 1, dial_once, return on ok,
\* otherwise remember the failure and sleep
DialAttempt ==
    /\ dpc = "loop"
    /\ LoopGuard(attempts, retries)
    /\ \E prov \in ProviderOutcomes :
        LET n   == attempts + 1
            res == DialOnce(item, prov)
            d   == BackoffDelay(backoff, n)
            nxt == AfterAttempt(res, d) IN
        /\ attempts' = n
        /\ dialLog' = Append(dialLog, res)
        /\ netCalls' = IF MakesNetworkCall(item) THEN netCalls + 1 ELSE netCalls
        /\ dpc' = nxt
        /\ result' = IF nxt = "returned" THEN WithAttempts(res, n) ELSE result
        /\ last' = IF res.ok THEN last ELSE res
        /\ sleeps' = IF ~res.ok /\ nxt = "loop" THEN Append(sleeps, d) ELSE sleeps
    /\ UNCHANGED <<item, retries, backoff>>
    /\ UNCHANGED sheetVars
    /\ UNCHANGED batchVars

\* the loop is over without a success: return last (or the generic failure)
DialExit ==
    /\ dpc = "loop"
    /\ ~LoopGuard(attempts, retries)
    /\ result' = WithAttempts(LastOrUnknown(last), attempts)
    /\ dpc' = "returned"
    /\ UNCHANGED <<item, retries, backoff, attempts, last, dialLog, netCalls, sleeps>>
    /\ UNCHANGED sheetVars
    /\ UNCHANGED batchVars

NextDial == DialAttempt \/ DialExit

SpecDial == InitDial /\ [][NextDial]_vars

(***************************************************************************)
(* api_call_batch: one request of POST /api/call/batch.  The items are     *)
(* dialled one after another by dial_with_retries (DialAttempt, DialExit). *)
(***************************************************************************)
\* the items tried in a batch: complete, without to_number, and empty
BatchItems ==
    {it \in Items : /\ it.provider = "twilio"
                    /\ \/ it.present = {}
                       \/ {"agent_id", "agent_phone_number_id"} \subseteq it.present}

\* lists of at most n items
ItemLists(n) == UNION {[1..k -> BatchItems] : k \in 0..n}

InitBatch ==
    /\ items \in ItemLists(MaxItems)
    /\ delay_seconds \in -1..MaxDelay
    /\ retries \in -1..MaxBatchRetries
    /\ backoff \in {-1, MaxBackoff}
    /\ loopIndex = 1
    /\ results = <<>>
    /\ bpc = "loop"
    /\ summary = None
    /\ paces = <<>>
    /\ item = [present |-> {}, provider |-> "twilio"]
    /\ attempts = 0
    /\ last = None
    /\ dpc = "idle"
    /\ result = None
    /\ dialLog = <<>>
    /\ netCalls = 0
    /\ sleeps = <<>>
    /\ header = <<>>
    /\ cells = <<>>
    /\ run = [p \in Runs |-> IdleRun]
    /\ delivered = {}
    /\ resent = {}
    /\ selection = [p \in Runs |-> NoSelection]

\* res["index"] = i, counted from 0
WithIndexFromZero(res, n) ==
    IF res.ok
    THEN [ok |-> TRUE, provider |-> res.provider, attempts |-> res.attempts,
          index |-> n - 1]
    ELSE [ok |-> FALSE, error |-> res.error, attempts |-> res.attempts,
          index |-> n - 1]

\* res["index"] = i
WithIndex(res, n) ==
    IF res.ok
    THEN [ok |-> TRUE, provider |-> res.provider, attempts |-> res.attempts,
          index |-> n]
    ELSE [ok |-> FALSE, error |-> res.error, attempts |-> res.attempts,
          index |-> n]

\* a pacing delay after every item, the last one too
PaceAfterEvery(d, n, len) == d > 0

\* if delay_seconds > 0 and i < len(items)
PaceAfter(d, n, len) == d > 0 /\ n < len

\* sum(1 for r in results if r.get("ok"))
OkCount(rs) == Cardinality({j \in 1..Len(rs) : rs[j].ok})

\* if not isinstance(items, list) or not items: 400
BatchReject ==
    /\ bpc = "loop"
    /\ dpc = "idle"
    /\ items = <<>>
    /\ bpc' = "rejected"
    /\ UNCHANGED <<items, delay_seconds, loopIndex, results, summary, paces>>
    /\ UNCHANGED dialVars
    /\ UNCHANGED sheetVars

\* the loop takes item i and calls dial_with_retries on it
BatchCall ==
    /\ bpc = "loop"
    /\ dpc = "idle"
    /\ loopIndex <= Len(items)
    /\ item' = items[loopIndex]
    /\ attempts' = 0
    /\ last' = None
    /\ result' = None
    /\ dpc' = "loop"
    /\ dialLog' = <<>>
    /\ netCalls' = 0
    /\ sleeps' = <<>>
    /\ UNCHANGED <<retries, backoff>>
    /\ UNCHANGED batchVars
    /\ UNCHANGED sheetVars

\* dial_with_retries returned: index the result, append it, pace
BatchCollect ==
    /\ bpc = "loop"
    /\ dpc = "returned"
    /\ results' = Append(results, WithIndex(result, loopIndex))
    /\ paces' = IF PaceAfter(delay_seconds, loopIndex, Len(items))
                THEN Append(paces, [after |-> loopIndex, seconds |-> delay_seconds])
                ELSE paces
    /\ loopIndex' = loopIndex + 1
    /\ dpc' = "idle"
    /\ UNCHANGED <<item, retries, backoff, attempts, last, result,
                   dialLog, netCalls, sleeps>>
    /\ UNCHANGED <<items, delay_seconds, bpc, summary>>
    /\ UNCHANGED sheetVars

\* the loop is over: count the successes and answer 200
BatchReturn ==
    /\ bpc = "loop"
    /\ dpc = "idle"
    /\ items # <<>>
    /\ loopIndex > Len(items)
    /\ summary' = [ok |-> TRUE, total |-> Len(items),
                   successes |-> OkCount(results), results |-> results]
    /\ bpc' = "returned"
    /\ UNCHANGED <<items, delay_seconds, loopIndex, results, paces>>
    /\ UNCHANGED dialVars
    /\ UNCHANGED sheetVars

\* an exception raised inside dial_with_retries is caught nowhere in
\* api_call_batch: the request ends without a summary
BatchAbort ==
    /\ bpc = "loop"
    /\ dpc = "raised"
    /\ bpc' = "raised"
    /\ UNCHANGED <<items, delay_seconds, loopIndex, results, summary, paces>>
    /\ UNCHANGED dialVars
    /\ UNCHANGED sheetVars

\* the provider SDK call is made without a timeout argument: when the
\* provider never answers, the iteration stays inside dial_once
DialHang ==
    /\ bpc = "loop"
    /\ dpc = "loop"
    /\ LoopGuard(attempts, retries)
    /\ MakesNetworkCall(item)
    /\ attempts' = attempts + 1
    /\ netCalls' = netCalls + 1
    /\ dpc' = "blocked"
    /\ UNCHANGED <<item, retries, backoff, last, result, dialLog, sleeps>>
    /\ UNCHANGED batchVars
    /\ UNCHANGED sheetVars

NextBatch ==
    \/ BatchReject
    \/ BatchCall
    \/ DialAttempt
    \/ DialHang
    \/ DialExit
    \/ BatchCollect
    \/ BatchReturn
    \/ BatchAbort

SpecBatch == InitBatch /\ [][NextBatch]_vars

\* the scheduler runs the request handler whenever it can take a step
SpecBatchFair == SpecBatch /\ WF_vars(NextBatch)

(***************************************************************************)
(* sms_blast.py: main().  Runs follow one another on the same worksheet.   *)
(***************************************************************************)
\* what client.messages.create does: returns a message, raises a
\* TwilioException, or raises something else ("abort")
TwilioErrors == {"HTTP 429", "HTTP 500"}

\* the TwilioException tried for the call made after n failed attempts:
\* rate limiting first, a server error on the last attempt
TwilioErrorAt(n) == IF n + 1 < MaxSendAttempts THEN "HTTP 429" ELSE "HTTP 500"

SendOutcomes(n) == {"ok", "abort", TwilioErrorAt(n)}

\* msg.sid of a message accepted during run p
SidOf(p) == "SM" \o ToString(p)

\* the header rows a worksheet starts with
HeaderLayouts ==
    { <<>>,
      <<"Number", "Message", "Status", "Sent_At", "SID", "Error">>,
      <<"Number", "Message">>,
      <<"number", " Message ", "status">>,
      <<"Name", "Message">>,
      <<"Number", "Name">> }

\* the contents a data row starts with, by logical column
RowKinds ==
    { [number |-> " ", message |-> "", status |-> "", sent_at |-> "", sid |-> ""],
      [number |-> "+15550001", message |-> "hi", status |-> "", sent_at |-> "", sid |-> ""],
      [number |-> "", message |-> "hi", status |-> "", sent_at |-> "", sid |-> ""],
      [number |-> "+15550001", message |-> "hi", status |-> " sent ", sent_at |-> "T0", sid |-> "SM0"] }

\* a data row of kind k under header hdr
InitRow(hdr, k) ==
    [c \in 1..Len(hdr) |->
        LET name == Lower(Strip(hdr[c])) IN
        CASE name = "number"  -> k.number
          [] name = "message" -> k.message
          [] name = "status"  -> k.status
          [] name = "sent_at" -> k.sent_at
          [] name = "sid"     -> k.sid
          [] OTHER            -> ""]

\* a worksheet with a header of layouts and rows of rowKinds, no run started
InitSheetOf(layouts, rowKinds) ==
    /\ header \in layouts
    /\ \E n \in 0..MaxRows :
          \E kinds \in [1..n -> rowKinds] :
              /\ header = <<>> => n = 0
              /\ cells = [k \in 1..n |-> InitRow(header, kinds[k])]
    /\ run = [p \in Runs |-> IdleRun]
    /\ delivered = {}
    /\ resent = {}
    /\ selection = [p \in Runs |-> NoSelection]
    /\ item = [present |-> {}, provider |-> "twilio"]
    /\ retries = 0
    /\ backoff = 0
    /\ attempts = 0
    /\ last = None
    /\ dpc = "returned"
    /\ result = None
    /\ dialLog = <<>>
    /\ netCalls = 0
    /\ sleeps = <<>>
    /\ items = <<>>
    /\ delay_seconds = 0
    /\ loopIndex = 1
    /\ results = <<>>
    /\ bpc = "idle"
    /\ summary = None
    /\ paces = <<>>

InitSheet == InitSheetOf(HeaderLayouts, RowKinds)

Ended(p) == run[p].pc \in {"returned", "raised"}

\* run p may start: it has not started and the runs before it have ended
CanStart(p) ==
    /\ run[p].pc = "idle"
    /\ \A q \in Runs : q < p => Ended(q)

\* the run is in the for loop over to_send
InLoop(p) == run[p].pc = "running" /\ run[p].pos <= Len(run[p].to_send)

\* the for loop is over
AtFlush(p) == run[p].pc = "running" /\ run[p].pos > Len(run[p].to_send)

\* if not values: return 0
StartEmptySheet(p) ==
    /\ header = <<>>
    /\ run' = [run EXCEPT ![p].pc = "returned"]
    /\ UNCHANGED <<header, cells, delivered, resent>>
    /\ UNCHANGED selection
    /\ UNCHANGED dialVars
    /\ UNCHANGED batchVars

\* the worksheet is empty: return 0, started once the runs before it have ended
RunEmptySheet(p) == CanStart(p) /\ StartEmptySheet(p)

\* find_header_indexes raises: no Number or no Message column
StartSchemaError(p) ==
    /\ header # <<>>
    /\ HeaderRaises(header)
    /\ run' = [run EXCEPT ![p].pc = "raised"]
    /\ UNCHANGED <<header, cells, delivered, resent>>
    /\ UNCHANGED selection
    /\ UNCHANGED dialVars
    /\ UNCHANGED batchVars

\* the schema error, started once the runs before it have ended
RunSchemaError(p) == CanStart(p) /\ StartSchemaError(p)

\* header migration, then rows_to_send finds nothing: return 0
StartNothingToSend(p) ==
    /\ header # <<>>
    /\ ~HeaderRaises(header)
    /\ LET hdr == MigratedHeader(header)
           ix  == HeaderIndexes(hdr) IN
       /\ RowsToSend(cells, ix.status) = <<>>
       /\ header' = hdr
       /\ run' = [run EXCEPT ![p].pc = "returned"]
       /\ selection' = [selection EXCEPT ![p] = [made |-> TRUE, rows |-> {}]]
    /\ UNCHANGED <<cells, delivered, resent>>
    /\ UNCHANGED dialVars
    /\ UNCHANGED batchVars

\* nothing to send, started once the runs before it have ended
RunNothingToSend(p) == CanStart(p) /\ StartNothingToSend(p)

\* header migration, rows_to_send, the cap: the run enters its for loop
StartQueue(p) ==
    /\ header # <<>>
    /\ ~HeaderRaises(header)
    /\ \E dry \in BOOLEAN, lim \in {0, 1, MaxLimit} :
        LET hdr == MigratedHeader(header)
            ix  == HeaderIndexes(hdr)
            tg  == RowsToSend(cells, ix.status) IN
        /\ tg # <<>>
        /\ header' = hdr
        /\ run' = [run EXCEPT ![p] =
                     [@ EXCEPT !.pc = "running", !.DRY_RUN = dry,
                               !.DAILY_LIMIT = lim, !.header0 = header,
                               !.all_values = cells, !.idx = ix,
                               !.targets = tg, !.to_send = SliceTo(tg, lim),
                               !.pos = 1, !.attempt = 0, !.error = "",
                               !.updates = <<>>, !.flushed = 0]]
        /\ selection' = [selection EXCEPT ![p] =
                           [made |-> TRUE,
                            rows |-> {tg[j].row_number : j \in 1..Len(tg)}]]
    /\ UNCHANGED <<cells, delivered, resent>>
    /\ UNCHANGED dialVars
    /\ UNCHANGED batchVars

\* the queued run, started once the runs before it have ended
RunQueue(p) == CanStart(p) /\ StartQueue(p)

\* the row the for loop is at
Cur(p) == run[p].to_send[run[p].pos]

CurNumber(p) == SafeGet(Cur(p).row, run[p].idx.number)

CurMessage(p) == SafeGet(Cur(p).row, run[p].idx.message)

\* the locals of r after the loop body appended vals for the current row
RowFinished(r, vals) ==
    [r EXCEPT !.updates = Append(@, UpdateEntry(r.to_send[r.pos].row_number,
                                                r.idx, header, vals)),
              !.processed = Append(@, r.to_send[r.pos].row_number),
              !.pos = @ + 1,
              !.attempt = 0,
              !.error = ""]

\* the test for a row that cannot be sent, asking for both to be empty
IsMissingBoth(number, message) == number = "" /\ message = ""

\* if not number or not message
IsMissing(number, message) == number = "" \/ message = ""

\* if not number or not message: FAILED, continue
RowMissing(p) ==
    /\ InLoop(p)
    /\ IsMissing(CurNumber(p), CurMessage(p))
    /\ run' = [run EXCEPT ![p] =
                 RowFinished(@, <<"FAILED", NowIso(p), "", "Missing Number or Message">>)]
    /\ UNCHANGED <<header, cells, delivered, resent>>
    /\ UNCHANGED selection
    /\ UNCHANGED dialVars
    /\ UNCHANGED batchVars

\* the dry-run update without the sentinel id
DryRunValuesNoSentinel(ts) == <<"SENT", ts, "", "">>

\* the values of the dry-run update: ["SENT", now_iso(), "DRYRUN", ""]
DryRunValues(ts) == <<"SENT", ts, "DRYRUN", "">>

\* if DRY_RUN: SENT with DRYRUN, continue
RowDryRun(p) ==
    /\ InLoop(p)
    /\ ~IsMissing(CurNumber(p), CurMessage(p))
    /\ run[p].DRY_RUN
    /\ run' = [run EXCEPT ![p] =
                 RowFinished(@, DryRunValues(NowIso(p)))]
    /\ UNCHANGED <<header, cells, delivered, resent>>
    /\ UNCHANGED selection
    /\ UNCHANGED dialVars
    /\ UNCHANGED batchVars

\* for attempt in range(3): the loop goes on after n attempts
MoreAttempts(n) == n < MaxSendAttempts

\* one client.messages.create of the retry loop, with what follows it: on
\* success the SENT update, after the last failure the FAILED update
RowSendAttempt(p) ==
    /\ InLoop(p)
    /\ ~IsMissing(CurNumber(p), CurMessage(p))
    /\ ~run[p].DRY_RUN
    /\ \E out \in SendOutcomes(run[p].attempt) :
        LET rn == Cur(p).row_number IN
        /\ resent' = IF rn \in delivered THEN resent \cup {rn} ELSE resent
        /\ delivered' = IF out = "ok" THEN delivered \cup {rn} ELSE delivered
        /\ LET r == [run[p] EXCEPT !.called = @ \cup {rn}] IN
           run' = [run EXCEPT ![p] =
              CASE out = "ok" ->
                     RowFinished(r, <<"SENT", NowIso(p), SidOf(p), "">>)
                [] out = "abort" ->
                     [IdleRun EXCEPT !.pc = "raised"]
                [] OTHER ->
                     IF MoreAttempts(r.attempt + 1)
                     THEN [r EXCEPT !.attempt = @ + 1, !.error = out]
                     ELSE RowFinished(r, <<"FAILED", NowIso(p), "", out>>)]
    /\ UNCHANGED <<header, cells>>
    /\ UNCHANGED selection
    /\ UNCHANGED dialVars
    /\ UNCHANGED batchVars

\* the updates queued so far written while the run is still in its loop
FlushChunkEarly(p) ==
    /\ InLoop(p)
    /\ run[p].flushed < Len(run[p].updates)
    /\ LET group == ChunkAt(run[p].updates, run[p].flushed) IN
       /\ \A k \in 1..Len(group) : FitsRange(group[k])
       /\ cells' = ApplyUpdates(cells, group)
       /\ run' = [run EXCEPT ![p].flushed = @ + Len(group)]
    /\ UNCHANGED <<header, delivered, resent>>
    /\ UNCHANGED selection
    /\ UNCHANGED dialVars
    /\ UNCHANGED batchVars

\* ws.batch_update(group) succeeds for the next chunk
FlushChunkOk(p) ==
    /\ AtFlush(p)
    /\ run[p].flushed < Len(run[p].updates)
    /\ LET group == ChunkAt(run[p].updates, run[p].flushed) IN
       /\ \A k \in 1..Len(group) : FitsRange(group[k])
       /\ cells' = ApplyUpdates(cells, group)
       /\ run' = [run EXCEPT ![p].flushed = @ + Len(group)]
    /\ UNCHANGED <<header, delivered, resent>>
    /\ UNCHANGED selection
    /\ UNCHANGED dialVars
    /\ UNCHANGED batchVars

\* ws.batch_update(group) raises: nothing of the chunk is written, and the
\* exception ends the run
FlushChunkFail(p) ==
    /\ AtFlush(p)
    /\ run[p].flushed < Len(run[p].updates)
    /\ run' = [run EXCEPT ![p] = [IdleRun EXCEPT !.pc = "raised"]]
    /\ UNCHANGED <<header, cells, delivered, resent>>
    /\ UNCHANGED selection
    /\ UNCHANGED dialVars
    /\ UNCHANGED batchVars

\* all chunks written: print the summary, return 0
RunDone(p) ==
    /\ AtFlush(p)
    /\ run[p].flushed = Len(run[p].updates)
    /\ run' = [run EXCEPT ![p] = [IdleRun EXCEPT !.pc = "returned"]]
    /\ UNCHANGED <<header, cells, delivered, resent>>
    /\ UNCHANGED selection
    /\ UNCHANGED dialVars
    /\ UNCHANGED batchVars

NextSheet ==
    \E p \in Runs :
        \/ RunEmptySheet(p)
        \/ RunSchemaError(p)
        \/ RunNothingToSend(p)
        \/ RunQueue(p)
        \/ RowMissing(p)
        \/ RowDryRun(p)
        \/ RowSendAttempt(p)
        \/ FlushChunkOk(p)
        \/ FlushChunkFail(p)
        \/ RunDone(p)

SpecSheet == InitSheet /\ [][NextSheet]_vars

(***************************************************************************)
(* Worksheets whose tracking columns are partly there, or in another       *)
(* order, when the run starts.                                             *)
(***************************************************************************)
\* header rows with Number and Message and tracking columns in other places
TrackingLayouts ==
    { <<>>,
      <<"Name", "Message">>,
      <<"Number", "Message", "Status", "Sent_At", "SID", "Error">>,
      <<"Number", "Status", "Message">>,
      <<"Number", "Message", "Error", "Status">>,
      <<"Number", "Message", "SID">> }

\* rows that are pending when the run starts
PendingRowKinds == {k \in RowKinds : k.message = "hi" /\ k.status = ""}

InitLayout == InitSheetOf(TrackingLayouts, PendingRowKinds)

SpecLayout == InitLayout /\ [][NextSheet]_vars

(***************************************************************************)
(* Two or more runs of main() at the same time on one worksheet: a run may *)
(* start while earlier runs are still between their read and their flush.  *)
(***************************************************************************)
\* the two runs that overlap
RaceRuns == {1, 2}

\* run p may start as soon as the runs before it have started
CanJoin(p) ==
    /\ p \in RaceRuns
    /\ run[p].pc = "idle"
    /\ \A q \in Runs : q < p => run[q].pc # "idle"

RaceEmptySheet(p) == CanJoin(p) /\ StartEmptySheet(p)

RaceSchemaError(p) == CanJoin(p) /\ StartSchemaError(p)

RaceNothingToSend(p) == CanJoin(p) /\ StartNothingToSend(p)

RaceQueue(p) == CanJoin(p) /\ StartQueue(p)

NextRace ==
    \E p \in Runs :
        \/ RaceEmptySheet(p)
        \/ RaceSchemaError(p)
        \/ RaceNothingToSend(p)
        \/ RaceQueue(p)
        \/ RowMissing(p)
        \/ RowDryRun(p)
        \/ RowSendAttempt(p)
        \/ FlushChunkOk(p)
        \/ FlushChunkFail(p)
        \/ RunDone(p)

SpecRace == InitSheet /\ [][NextRace]_vars

(***************************************************************************)
(* Properties of the retry controller (checked under SpecDial).            *)
(***************************************************************************)
DialTerminated == dpc \in {"returned", "raised"}

AllAttemptsFailed == \A k \in 1..Len(dialLog) : ~dialLog[k].ok

\* C3: the attempts value of the returned outcome equals the number of
\* dial_once calls made and is at most maxRetries + 1.
C3_AttemptsCountedAndBounded ==
    dpc = "returned" =>
        /\ result.attempts = Len(dialLog)
        /\ result.attempts <= retries + 1

\* C4: once an attempt succeeds, it is the last attempt, and the call has
\* returned Success with attempts = the number of that attempt.
C4_StopOnFirstSuccess ==
    \A k \in 1..Len(dialLog) :
        dialLog[k].ok =>
            /\ k = Len(dialLog)
            /\ k <= retries + 1
            /\ dpc = "returned"
            /\ result.ok
            /\ result.attempts = k

\* fail, fail, succeed with retries = 2 returned Success with attempts = 3
C4_Witness ==
    /\ dpc = "returned"
    /\ retries = 2
    /\ Len(dialLog) = 3
    /\ ~dialLog[1].ok
    /\ ~dialLog[2].ok
    /\ dialLog[3].ok
    /\ result.ok
    /\ result.attempts = 3

\* C5: with maxRetries >= 0, when every attempt fails, exactly maxRetries + 1
\* attempts are made and the failure of the last attempt is returned.
C5_AllFailReturnsLastFailure ==
    (DialTerminated /\ retries >= 0 /\ AllAttemptsFailed) =>
        /\ dpc = "returned"
        /\ Len(dialLog) = retries + 1
        /\ ~result.ok
        /\ result.error = dialLog[Len(dialLog)].error
        /\ result.attempts = retries + 1

\* C6: an item with a required field missing gets a Failed outcome with the
\* error "Missing fields: <names>" and no provider network call, whatever
\* maxRetries is.
C6_MissingFieldsFailWithoutNetwork ==
    (DialTerminated /\ Len(MissingFields(item)) > 0) =>
        /\ netCalls = 0
        /\ dpc = "returned"
        /\ ~result.ok
        /\ result.error = "Missing fields: " \o Join(MissingFields(item))

\* the backoff delays of positive length slept so far
Delays == SelectSeq(sleeps, LAMBDA d : d > 0)

\* C7: a validation failure is never retried: one attempt, no backoff delay.
C7_ValidationFailureNotRetried ==
    (dpc = "returned" /\ Len(MissingFields(item)) > 0 /\ retries >= 0) =>
        /\ ~result.ok
        /\ result.attempts = 1
        /\ Len(dialLog) = 1
        /\ Delays = <<>>

\* C8: the delay slept just before attempt k (k >= 2) is
\* min(backoffBase * (k - 1), 6), and no delay exceeds 6.
C8_BackoffBeforeAttempt ==
    /\ \A k \in 2..Len(dialLog) :
          /\ Len(sleeps) >= k - 1
          /\ sleeps[k - 1] = Min(backoff * (k - 1), 6)
    /\ \A j \in 1..Len(sleeps) : sleeps[j] <= 6

\* base 2: the delays before attempts 2 and 3 were 2 and 4; a later delay of
\* a failing run reached the cap
C8_Witness ==
    /\ backoff = 2
    /\ Len(dialLog) >= 3
    /\ sleeps[1] = 2
    /\ sleeps[2] = 4
    /\ Len(sleeps) >= 3
    /\ sleeps[3] = 6

\* C9: every backoff delay is followed by another attempt on the same item:
\* no delay after the final attempt, and attempts - 1 delays in all.
C9_BackoffOnlyBetweenAttempts ==
    (dpc = "returned" /\ backoff > 0) =>
        /\ \A j \in 1..Len(sleeps) : j + 1 <= Len(dialLog)
        /\ result.attempts >= 1 => Len(Delays) = result.attempts - 1

(***************************************************************************)
(* Properties of the worklist run (checked under SpecSheet).               *)
(***************************************************************************)
Running(p) == run[p].pc = "running"

\* the run has gone through its loop and written all its updates
RunComplete(p) == AtFlush(p) /\ run[p].flushed = Len(run[p].updates)

\* C1: a row for which a provider send has succeeded is never sent to the
\* provider again, in this run or a later one.
C1_NoSendAfterSuccess == resent = {}

\* the Status cell of data row k as the worksheet showed it when run p
\* started: the column the header named Status then, trimmed, any case
StatusAtStart(p, k) ==
    Upper(Strip(CellAt(run[p].all_values[k], IdxFor(run[p].header0, "status"))))

\* C2: a row whose Status is SENT at the start of a run gets no provider
\* call and no update in that run; its cells stay as they were.
C2_SentRowUntouched ==
    \A p \in Runs :
        Running(p) =>
            \A k \in 1..Len(run[p].all_values) :
                StatusAtStart(p, k) = "SENT" =>
                    /\ (k + 1) \notin run[p].called
                    /\ \A j \in 1..Len(run[p].updates) : run[p].updates[j].row # k + 1
                    /\ cells[k] = run[p].all_values[k]

\* C10: with N pending rows and a cap >= 0 the loop processes the first
\* min(N, cap) pending rows, in ascending row order, and no others; a
\* pending row beyond the cap gets no provider call and no update and keeps
\* its cells.
C10_CapSelectsPrefix ==
    \A p \in Runs :
        (Running(p) /\ run[p].DAILY_LIMIT >= 0) =>
            LET tg == run[p].targets
                N  == Len(tg)
                m  == IF N <= run[p].DAILY_LIMIT THEN N ELSE run[p].DAILY_LIMIT
                done == run[p].processed IN
            /\ Len(done) <= m
            /\ \A j \in 1..Len(done) : done[j] = tg[j].row_number
            /\ AtFlush(p) => Len(done) = m
            /\ \A i, j \in 1..N : i < j => tg[i].row_number < tg[j].row_number
            /\ run[p].called \subseteq {tg[j].row_number : j \in 1..m}
            /\ \A j \in (m + 1)..N :
                  LET rn == tg[j].row_number IN
                  /\ rn \notin run[p].called
                  /\ \A u \in 1..Len(run[p].updates) : run[p].updates[u].row # rn
                  /\ cells[rn - 1] = run[p].all_values[rn - 1]

\* a run with more pending rows than its cap has processed exactly the
\* first cap of them, with a provider call, and written their updates
C10_Witness ==
    \E p \in Runs :
        /\ RunComplete(p)
        /\ run[p].DAILY_LIMIT >= 1
        /\ Len(run[p].targets) > run[p].DAILY_LIMIT
        /\ Len(run[p].processed) = run[p].DAILY_LIMIT
        /\ run[p].processed[1] = run[p].targets[1].row_number
        /\ run[p].processed[1] \in run[p].called
        /\ cells[run[p].processed[1] - 1] # run[p].all_values[run[p].processed[1] - 1]
        /\ LET rn == run[p].targets[Len(run[p].targets)].row_number IN
           cells[rn - 1] = run[p].all_values[rn - 1]

(***************************************************************************)
(* Properties of the batch endpoint (SpecBatch).                           *)
(***************************************************************************)
\* the request has ended: answered 200, or ended by an uncaught exception
BatchEnded == bpc \in {"returned", "raised"}

\* C11: whatever items fail (validation or provider errors, on any
\* attempt), a batch over a non-empty list of N items goes through all N
\* items and answers with a summary whose total is N and which carries
\* exactly N results; no failure of an item ends the batch early.
C11_BatchProcessesEveryItem ==
    (items # <<>> /\ BatchEnded) =>
        /\ bpc = "returned"
        /\ summary.total = Len(items)
        /\ Len(summary.results) = Len(items)

\* the result recorded for item it: a success only for a complete item, and
\* for an incomplete item the validation error naming its missing fields
OutcomeOf(it, res) ==
    /\ res.ok => MakesNetworkCall(it)
    /\ (~MakesNetworkCall(it) /\ res.attempts > 0) =>
           (~res.ok /\ res.error = "Missing fields: " \o Join(MissingFields(it)))

\* C12: the items are dialled strictly in input order - while item i is
\* being attempted exactly the i-1 items before it have their result, so
\* every attempt of an item is over before the next item's first attempt -
\* and results[j] is the outcome of the j-th item and carries index j.
C12_ResultsInInputOrder ==
    /\ (bpc = "loop" /\ dpc # "idle") =>
           /\ loopIndex \in 1..Len(items)
           /\ item = items[loopIndex]
           /\ Len(results) = loopIndex - 1
    /\ (bpc = "loop" /\ dpc = "idle") => Len(results) = loopIndex - 1
    /\ Len(results) <= Len(items)
    /\ \A j \in 1..Len(results) :
           /\ results[j].index = j
           /\ OutcomeOf(items[j], results[j])
    /\ bpc = "returned" =>
           /\ summary.results = results
           /\ Len(results) = Len(items)

C12_Witness ==
    /\ bpc = "returned"
    /\ Len(items) >= 2
    /\ results[1].attempts > 1
    /\ results[1].ok
    /\ ~results[2].ok
    /\ ~MakesNetworkCall(items[2])

\* C16: with delay_seconds > 0 there is one pacing delay after each item
\* but the last - the k-th delay follows the k-th item's result and
\* precedes the first attempt of item k+1 - so a finished batch of N items
\* has made exactly N-1 of them; with delay_seconds = 0 there is none.
C16_PacingBetweenItems ==
    /\ \A k \in 1..Len(paces) :
           /\ paces[k].after = k
           /\ paces[k].seconds = delay_seconds
    /\ delay_seconds > 0 => Len(paces) = Min(Len(results), Max(Len(items) - 1, 0))
    /\ delay_seconds = 0 => paces = <<>>
    /\ (bpc = "returned" /\ delay_seconds > 0) => Len(paces) = Len(items) - 1

C16_Witness ==
    /\ bpc = "returned"
    /\ delay_seconds > 0
    /\ Len(items) >= 2
    /\ Len(paces) = Len(items) - 1

\* C20: a provider call that never returns does not hang the batch - the
\* attempt ends as a failure and the retry loop goes on - so every batch
\* over a non-empty finite item list eventually answers with its summary
\* (stated for backoff_seconds >= 0, where no sleep raises).
C20_BatchEventuallyReturns ==
    (items # <<>> /\ backoff >= 0) => <>(bpc = "returned")

(***************************************************************************)
(* Properties of the worklist run, continued (SpecSheet).                  *)
(***************************************************************************)
\* the sheet row numbers in a list of (row_number, row) pairs
RowNumbers(tg) == {tg[j].row_number : j \in 1..Len(tg)}

\* C13: rows_to_send selects a data row exactly when its Status cell,
\* trimmed and upper-cased, is not "SENT" and some cell of the row is
\* non-blank after trimming; the selected rows come in ascending row order,
\* each with its 1-based sheet row number (the header is row 1) and its
\* cells; a row of blank cells only is never selected.
C13_SelectsPendingNonBlankRows ==
    \A p \in Runs : Running(p) =>
        LET tg   == run[p].targets
            rows == run[p].all_values
            st   == run[p].idx.status IN
        /\ \A k \in 1..Len(rows) :
               (k + 1 \in RowNumbers(tg)) <=>
                   /\ Upper(Strip(CellAt(rows[k], st))) # "SENT"
                   /\ \E c \in 1..Len(rows[k]) : Strip(rows[k][c]) # ""
        /\ \A j \in 1..Len(tg) :
               /\ tg[j].row_number \in 2..(Len(rows) + 1)
               /\ tg[j].row = rows[tg[j].row_number - 1]
        /\ \A j \in 1..(Len(tg) - 1) : tg[j].row_number < tg[j + 1].row_number

\* a run whose worksheet has a row of whitespace only above a pending row
C13_Witness ==
    \E p \in Runs :
        /\ Running(p)
        /\ Len(run[p].all_values) = 2
        /\ \E c \in 1..Len(run[p].all_values[1]) : run[p].all_values[1][c] = " "
        /\ RowNumbers(run[p].targets) = {3}

\* run p has called rows_to_send and has written nothing since: the
\* worksheet is the one its selection was made from
JustSelected(p) ==
    /\ selection[p].made
    /\ \A q \in Runs : q > p => ~selection[q].made
    /\ \/ Running(p) /\ run[p].flushed = 0
       \/ selection[p].rows = {}

\* C14: of two runs in succession on the same worksheet, the first with at
\* least one pending row, the second selects strictly fewer pending rows
\* than the first, whatever the provider answered in the first.
C14_SecondRunSelectsFewer ==
    \A p \in Runs :
        (p > 1 /\ selection[p].made /\ selection[p - 1].made
               /\ selection[p - 1].rows # {}) =>
            Cardinality(selection[p].rows) < Cardinality(selection[p - 1].rows)

\* C14, amended: the second run selects exactly the rows of the first run's
\* selection that the worksheet does not show as SENT - never more rows
\* than the first run, and fewer only by the rows recorded as SENT; rows
\* that ended FAILED, rows beyond the cap and rows whose update was never
\* written are selected again.
C14_SecondRunSelectsUnsentRest ==
    \A p \in Runs :
        (p > 1 /\ selection[p - 1].made /\ selection[p - 1].rows # {}
               /\ JustSelected(p)) =>
            selection[p].rows =
                {k \in selection[p - 1].rows :
                    Upper(Strip(CellAt(cells[k - 1],
                                       IdxFor(header, "status")))) # "SENT"}

\* a second run that selects some, but not all, rows of the first selection
C14_Witness ==
    \E p \in Runs :
        /\ p > 1
        /\ JustSelected(p)
        /\ selection[p].rows # {}
        /\ selection[p].rows # selection[p - 1].rows
        /\ selection[p].rows \subseteq selection[p - 1].rows

\* the cells of sheet row rn when run p read the worksheet
RowAtStart(p, rn) == run[p].all_values[rn - 1]

C18_FlushFailureStillReturns ==
    [][\A p \in Runs :
          (/\ AtFlush(p)
           /\ run[p].flushed < Len(run[p].updates)
           /\ run[p].called \cap delivered # {}) => run'[p].pc # "raised"]_vars

\* the worksheet has a header row without a Number or without a Message
\* column, names trimmed and compared in lower case
LacksNumberOrMessage ==
    /\ header # <<>>
    /\ \/ \A k \in 1..Len(header) : Lower(Strip(header[k])) # "number"
       \/ \A k \in 1..Len(header) : Lower(Strip(header[k])) # "message"

\* C19: a run started on a worksheet whose header lacks a Number or a
\* Message column ends by raising, before any provider call and before any
\* write to the worksheet - the header row is not migrated, no cell changes.
C19_SchemaErrorBeforeAnyWrite ==
    [][\A p \in Runs :
          (CanStart(p) /\ LacksNumberOrMessage /\ run'[p] # run[p]) =>
              /\ run'[p].pc = "raised"
              /\ header' = header
              /\ cells' = cells
              /\ delivered' = delivered
              /\ run'[p].called = {}
              /\ selection' = selection]_vars

\* a run has raised on a header without Message, the worksheet has data
C19_Witness ==
    \E p \in Runs :
        /\ run[p].pc = "raised"
        /\ LacksNumberOrMessage
        /\ \E k \in 1..Len(header) : Lower(Strip(header[k])) = "number"
        /\ Len(cells) > 0
        /\ delivered = {}

(***************************************************************************)
(* Properties of dial_with_retries, continued (SpecDial).                  *)
(***************************************************************************)
\* C22: for every integer retries a request can supply, 0 and negative
\* values included, the returned outcome has attempts >= 1: at least one
\* dial_once call is made before a terminal outcome is reported.
C22_AtLeastOneAttempt ==
    dpc = "returned" =>
        /\ result.attempts >= 1
        /\ Len(dialLog) >= 1

(***************************************************************************)
(* Properties of overlapping runs (SpecRace).                              *)
(***************************************************************************)
\* C21: two runs at the same time on one worksheet can both select the
\* same pending row and both send it to the provider (C21_Witness), because
\* a run works from the rows it read at its start - no step of a running
\* run changes its snapshot or its selection, and a send is made for the
\* queue's current row whatever the worksheet shows by then - and because
\* cells are written only by a flush step, taken after the run's loop.
C21_SnapshotAndLateWrites ==
    [][\A p \in Runs :
          /\ (Running(p) /\ run'[p].pc = "running") =>
                /\ run'[p].all_values = run[p].all_values
                /\ run'[p].targets = run[p].targets
                /\ run'[p].to_send = run[p].to_send
                /\ run'[p].called # run[p].called =>
                      /\ InLoop(p)
                      /\ run'[p].called = run[p].called \cup {Cur(p).row_number}
          /\ cells' # cells =>
                \E q \in Runs : AtFlush(q) /\ run'[q].flushed > run[q].flushed]_vars

\* both runs are under way, both selected sheet row rn while its Status
\* was empty, and both have sent it to the provider
C21_Witness ==
    \E p, q \in Runs :
        /\ p # q
        /\ Running(p) /\ Running(q)
        /\ \E rn \in run[p].called \cap run[q].called :
              /\ rn \in RowNumbers(run[p].targets) \cap RowNumbers(run[q].targets)
              /\ CellAt(RowAtStart(p, rn), run[p].idx.status) = ""
              /\ CellAt(RowAtStart(q, rn), run[q].idx.status) = ""
              /\ rn \in delivered
              /\ rn \in resent

(***************************************************************************)
(* Properties of the row updates (SpecLayout).                             *)
(***************************************************************************)
\* the 0-based positions of the four tracking columns run p resolved
TrackingIdx(p) ==
    {run[p].idx.status, run[p].idx.sent_at, run[p].idx.sid, run[p].idx.error}

\* C23: whatever the header layout with Number and Message - tracking
\* columns there or not, in any order - every update a run has written put
\* its status into the row's Status cell, its timestamp into Sent_At, its
\* id into SID and its error into Error, and the row's other cells are as
\* the run read them.
C23_UpdatesLandInTrackingColumns ==
    \A p \in Runs : Running(p) =>
        \A j \in 1..run[p].flushed :
            LET u   == run[p].updates[j]
                now == cells[u.row - 1]
                was == RowAtStart(p, u.row) IN
            /\ CellAt(now, run[p].idx.status) = u.values[1]
            /\ CellAt(now, run[p].idx.sent_at) = u.values[2]
            /\ CellAt(now, run[p].idx.sid) = u.values[3]
            /\ CellAt(now, run[p].idx.error) = u.values[4]
            /\ \A c \in 0..(Max(Len(now), Len(was)) - 1) :
                  c \notin TrackingIdx(p) => CellAt(now, c) = CellAt(was, c)

(***************************************************************************)
(* Properties of the send loop (SpecSheet).                                *)
(***************************************************************************)
\* run p is at a row of its queue that has Number and Message, DRY_RUN off
AtSendableRow(p) ==
    /\ InLoop(p)
    /\ ~run[p].DRY_RUN
    /\ CurNumber(p) # ""
    /\ CurMessage(p) # ""

\* C24: in a run without DRY_RUN every step taken at a sendable row is one
\* of at most 3 provider attempts for it; the step either leaves the row
\* for a further attempt (fewer than 3 made, no success) or finishes it
\* with the update SENT and the provider's id - exactly when the attempt
\* succeeded - or FAILED with the error of this last attempt; none ends the
\* run or leaves the row without its update.
C24_ThreeAttemptsThenMarked ==
    [][\A p \in Runs : (AtSendableRow(p) /\ run'[p] # run[p]) =>
          LET rn == Cur(p).row_number
              n  == run[p].attempt IN
          /\ n < 3
          /\ run'[p].pc = "running"
          /\ run'[p].called = run[p].called \cup {rn}
          /\ \/ /\ run'[p].pos = run[p].pos
                /\ run'[p].attempt = n + 1
                /\ n + 1 < 3
                /\ run'[p].updates = run[p].updates
                /\ rn \notin delivered => rn \notin delivered'
             \/ /\ run'[p].pos = run[p].pos + 1
                /\ Len(run'[p].updates) = Len(run[p].updates) + 1
                /\ LET u == run'[p].updates[Len(run'[p].updates)] IN
                   /\ u.row = rn
                   /\ \/ /\ rn \in delivered'
                         /\ u.values[1] = "SENT"
                         /\ u.values[3] = SidOf(p)
                         /\ u.values[4] = ""
                      \/ /\ rn \notin delivered => rn \notin delivered'
                         /\ n + 1 = 3
                         /\ u.values[1] = "FAILED"
                         /\ u.values[3] = ""
                         /\ u.values[4] = TwilioErrorAt(n)]_vars

====
